---- MODULE Spec2Model ----
(***************************************************************************)
(* State-machine model of the SEP-41 token contract of tokenLab            *)
(* (contracts/sep41_token).  The contract keeps no state of its own: every *)
(* entry point reads the host's key/value storage, mutates it and returns, *)
(* or panics, in which case the host discards the writes of the call.      *)
(*                                                                         *)
(* contract.rs uses the modules `balance` and `allowance`                  *)
(* (contract.rs:2-3); their operations are modelled from sections 4.4 and  *)
(* 4.5 of the specification.                                               *)
(***************************************************************************)
EXTENDS Integers, FiniteSets, Sequences, TLC

VARIABLES
    storage,    \* the contract's storage: the Instance entries (keys Admin and
                \* State; an absent key is outside the DOMAIN), the Balance and
                \* Allowance ledgers and the freeze (raw Address key) entries
    ledger      \* the host's ledger sequence number

vars == <<storage, ledger>>

----------------------------------------------------------------------------
(* Bounds of the model *)

\* Balances, allowances and the supply are explored within -MaxValue..MaxValue
\* (the i128 amounts are unbounded for the purposes of the model).
MaxValue == 3
\* The ledger sequence number runs from 0 to MaxLedger.
MaxLedger == 1

Address == {"user1", "user2"}
\* Each invocation carries the authorisation of one principal.
Signers == {{a} : a \in Address}
\* Amount arguments: negative, zero and positive.
Amounts == {-1, 0, 1, 2}
\* expiration_ledger arguments.
Expirations == {0, 1}
\* max_supply arguments: Option<i128> is the empty set (None) or a
\* singleton (Some).
MaxSupplyArgs == {{}, {2}}
\* Allowances are granted by Owners to Spenders.
Owners == {"user1"}
Spenders == {"user2"}
Decimals == {7}
Names == {"Test Token"}
Symbols == {"TEST"}

----------------------------------------------------------------------------
(* Outcome of a call: err = "ok" and the storage it wrote, or the reason of *)
(* the panic together with the writes pending when it panicked.            *)

Ok(s) == [err |-> "ok", st |-> s]
Fail(e, s) == [err |-> e, st |-> s]

(* storage_types.rs *)

TokenMetadata(decimal, name, symbol) ==
    [kind |-> "TokenMetadata", decimal |-> decimal, name |-> name, symbol |-> symbol]

TokenState(admin, total_supply, max_supply, is_mintable, is_burnable, is_freezable, is_frozen) ==
    [kind |-> "TokenState", admin |-> admin, total_supply |-> total_supply,
     max_supply |-> max_supply, is_mintable |-> is_mintable,
     is_burnable |-> is_burnable, is_freezable |-> is_freezable,
     is_frozen |-> is_frozen]

AllowanceValue(amount, expiration_ledger) ==
    [amount |-> amount, expiration_ledger |-> expiration_ledger]

\* The storage of a freshly deployed contract.  An absent balance entry reads
\* as 0 and an absent allowance entry as {0, 0}: the two ledgers are kept as
\* what a read returns.
EmptyStorage ==
    [Instance |-> <<>>,
     Balance |-> [a \in Address |-> 0],
     Allowance |-> [k \in Address \X Address |-> AllowanceValue(0, 0)],
     Frozen |-> {}]

(* Update of a partial map (a storage set on a keyed entry). *)
Put(m, k, v) == [x \in DOMAIN m \cup {k} |-> IF x = k THEN v ELSE m[x]]

----------------------------------------------------------------------------
(* admin.rs *)

has_administrator(s) == "Admin" \in DOMAIN s.Instance

read_administrator(s) == s.Instance["Admin"]

write_administrator(s, id) == [s EXCEPT !.Instance = Put(s.Instance, "Admin", id)]

\* read_state unwraps the State entry as a TokenState: it panics when the
\* entry is absent or holds a value of another type.
has_state(s) ==
    "State" \in DOMAIN s.Instance /\ s.Instance["State"].kind = "TokenState"

read_state(s) == s.Instance["State"]

write_state(s, state) == [s EXCEPT !.Instance = Put(s.Instance, "State", state)]

\* Mutant of check_admin: the administrator is read but its authorisation
\* is not required.
check_admin_NoAuth(s, auth) ==
    IF ~has_administrator(s) THEN "Uninitialized" ELSE "ok"

\* read_administrator unwraps (panics when Admin was never set), then
\* require_auth on the administrator.
check_admin(s, auth) ==
    IF ~has_administrator(s) THEN "Uninitialized"
    ELSE IF read_administrator(s) \notin auth THEN "AuthorizationFailed"
    ELSE "ok"

(* metadata.rs: the metadata record is stored under DataKey::State. *)
\* instance().get::<DataKey, TokenMetadata>(&DataKey::State): no entry reads
\* as None; an entry that is not a TokenMetadata fails the conversion and the
\* call panics.
read_metadata(s) ==
    IF "State" \notin DOMAIN s.Instance THEN [err |-> "ok", some |-> FALSE]
    ELSE IF s.Instance["State"].kind # "TokenMetadata"
         THEN [err |-> "ConversionError", some |-> FALSE]
    ELSE [err |-> "ok", some |-> TRUE]

read_decimal(s) ==
    LET m == read_metadata(s) IN
    IF m.err # "ok" THEN [err |-> m.err, val |-> 0]
    ELSE IF m.some THEN [err |-> "ok", val |-> s.Instance["State"].decimal]
    ELSE [err |-> "ok", val |-> 0]

read_name(s) ==
    LET m == read_metadata(s) IN
    IF m.err # "ok" THEN [err |-> m.err, val |-> ""]
    ELSE IF m.some THEN [err |-> "ok", val |-> s.Instance["State"].name]
    ELSE [err |-> "ok", val |-> ""]

read_symbol(s) ==
    LET m == read_metadata(s) IN
    IF m.err # "ok" THEN [err |-> m.err, val |-> ""]
    ELSE IF m.some THEN [err |-> "ok", val |-> s.Instance["State"].symbol]
    ELSE [err |-> "ok", val |-> ""]

write_metadata(s, metadata) ==
    [s EXCEPT !.Instance = Put(s.Instance, "State", metadata)]

----------------------------------------------------------------------------
(* balance module (specification 4.4) *)

read_balance(s, addr) == s.Balance[addr]

write_balance(s, addr, amount) == [s EXCEPT !.Balance[addr] = amount]

receive_balance(s, addr, amount) ==
    IF amount < 0 THEN Fail("InvalidAmount", s)
    ELSE Ok(write_balance(s, addr, read_balance(s, addr) + amount))

spend_balance(s, addr, amount) ==
    IF read_balance(s, addr) < amount THEN Fail("InsufficientBalance", s)
    ELSE Ok(write_balance(s, addr, read_balance(s, addr) - amount))

(* allowance module (specification 4.5) *)

\* An entry whose expiration lies before the current ledger sequence reads
\* as amount 0 (lazy expiry, specification 3 and 4.6); the entry is not
\* rewritten.
read_allowance(s, seq, from, spender) ==
    LET a == s.Allowance[<<from, spender>>] IN
    IF seq > a.expiration_ledger THEN AllowanceValue(0, a.expiration_ledger) ELSE a

write_allowance(s, from, spender, amount, expiration_ledger) ==
    [s EXCEPT !.Allowance[<<from, spender>>] = AllowanceValue(amount, expiration_ledger)]

spend_allowance(s, seq, from, spender, amount) ==
    LET a == read_allowance(s, seq, from, spender) IN
    IF seq > a.expiration_ledger THEN Fail("AllowanceExpired", s)
    ELSE IF a.amount < amount THEN Fail("InsufficientAllowance", s)
    ELSE Ok(write_allowance(s, from, spender, a.amount - amount, a.expiration_ledger))

----------------------------------------------------------------------------
(* contract.rs *)

\* Mutant of initialize: no has_administrator guard.
initialize_NoGuard(s, admin, decimal, name, symbol, max_supply, is_mintable, is_burnable, is_freezable) ==
    LET s1 == write_administrator(s, admin)
        s2 == write_metadata(s1, TokenMetadata(decimal, name, symbol))
    IN Ok(write_state(s2, TokenState(admin, 0, max_supply, is_mintable,
                                     is_burnable, is_freezable, FALSE)))

initialize(s, admin, decimal, name, symbol, max_supply, is_mintable, is_burnable, is_freezable) ==
    IF has_administrator(s) THEN Fail("AlreadyInitialized", s)
    ELSE LET s1 == write_administrator(s, admin)
             s2 == write_metadata(s1, TokenMetadata(decimal, name, symbol))
         IN Ok(write_state(s2, TokenState(admin, 0, max_supply, is_mintable,
                                          is_burnable, is_freezable, FALSE)))

\* Mutant of mint: the global freeze flag is not read.
mint_NoFrozenCheck(s, auth, to, amount) ==
    IF check_admin(s, auth) # "ok" THEN Fail(check_admin(s, auth), s)
    ELSE IF ~has_state(s) THEN Fail("Uninitialized", s)
    ELSE IF ~read_state(s).is_mintable THEN Fail("NotMintable", s)
    ELSE IF \E max_supply \in read_state(s).max_supply :
                read_state(s).total_supply + amount > max_supply
         THEN Fail("MaxSupplyExceeded", s)
    ELSE LET s1 == write_state(s, [read_state(s) EXCEPT !.total_supply = @ + amount])
         IN receive_balance(s1, to, amount)

\* Mutant of mint: the supply is raised but the balance is not credited.
mint_NoCredit(s, auth, to, amount) ==
    IF check_admin(s, auth) # "ok" THEN Fail(check_admin(s, auth), s)
    ELSE IF ~has_state(s) THEN Fail("Uninitialized", s)
    ELSE IF ~read_state(s).is_mintable THEN Fail("NotMintable", s)
    ELSE IF read_state(s).is_frozen THEN Fail("GloballyFrozen", s)
    ELSE IF \E max_supply \in read_state(s).max_supply :
                read_state(s).total_supply + amount > max_supply
         THEN Fail("MaxSupplyExceeded", s)
    ELSE Ok(write_state(s, [read_state(s) EXCEPT !.total_supply = @ + amount]))

\* Mutant of mint: a credit that fails does not abort the call, which
\* returns with the raised supply written.
mint_CreditFailureIgnored(s, auth, to, amount) ==
    IF check_admin(s, auth) # "ok" THEN Fail(check_admin(s, auth), s)
    ELSE IF ~has_state(s) THEN Fail("Uninitialized", s)
    ELSE IF ~read_state(s).is_mintable THEN Fail("NotMintable", s)
    ELSE IF read_state(s).is_frozen THEN Fail("GloballyFrozen", s)
    ELSE IF \E max_supply \in read_state(s).max_supply :
                read_state(s).total_supply + amount > max_supply
         THEN Fail("MaxSupplyExceeded", s)
    ELSE LET s1 == write_state(s, [read_state(s) EXCEPT !.total_supply = @ + amount])
             r  == receive_balance(s1, to, amount)
         IN IF r.err # "ok" THEN Ok(s1) ELSE r

mint(s, auth, to, amount) ==
    IF check_admin(s, auth) # "ok" THEN Fail(check_admin(s, auth), s)
    ELSE IF ~has_state(s) THEN Fail("Uninitialized", s)
    ELSE IF ~read_state(s).is_mintable THEN Fail("NotMintable", s)
    ELSE IF read_state(s).is_frozen THEN Fail("GloballyFrozen", s)
    ELSE IF \E max_supply \in read_state(s).max_supply :
                read_state(s).total_supply + amount > max_supply
         THEN Fail("MaxSupplyExceeded", s)
    ELSE LET s1 == write_state(s, [read_state(s) EXCEPT !.total_supply = @ + amount])
         IN receive_balance(s1, to, amount)

\* Mutant of burn: the supply is lowered without debiting the balance.
burn_NoDebit(s, auth, from, amount) ==
    IF check_admin(s, auth) # "ok" THEN Fail(check_admin(s, auth), s)
    ELSE IF ~has_state(s) THEN Fail("Uninitialized", s)
    ELSE IF ~read_state(s).is_burnable THEN Fail("NotBurnable", s)
    ELSE IF read_state(s).is_frozen THEN Fail("GloballyFrozen", s)
    ELSE Ok(write_state(s, [read_state(s) EXCEPT !.total_supply = @ - amount]))

burn(s, auth, from, amount) ==
    IF check_admin(s, auth) # "ok" THEN Fail(check_admin(s, auth), s)
    ELSE IF ~has_state(s) THEN Fail("Uninitialized", s)
    ELSE IF ~read_state(s).is_burnable THEN Fail("NotBurnable", s)
    ELSE IF read_state(s).is_frozen THEN Fail("GloballyFrozen", s)
    ELSE LET r == spend_balance(s, from, amount) IN
         IF r.err # "ok" THEN r
         ELSE Ok(write_state(r.st, [read_state(s) EXCEPT !.total_supply = @ - amount]))

freeze(s, auth, addr) ==
    IF check_admin(s, auth) # "ok" THEN Fail(check_admin(s, auth), s)
    ELSE IF ~has_state(s) THEN Fail("Uninitialized", s)
    ELSE IF ~read_state(s).is_freezable THEN Fail("NotFreezable", s)
    ELSE Ok([s EXCEPT !.Frozen = @ \cup {addr}])

\* Mutant of unfreeze: the freeze entry is toggled instead of removed.
unfreeze_Toggle(s, auth, addr) ==
    IF check_admin(s, auth) # "ok" THEN Fail(check_admin(s, auth), s)
    ELSE IF ~has_state(s) THEN Fail("Uninitialized", s)
    ELSE IF ~read_state(s).is_freezable THEN Fail("NotFreezable", s)
    ELSE IF addr \in s.Frozen THEN Ok([s EXCEPT !.Frozen = @ \ {addr}])
    ELSE Ok([s EXCEPT !.Frozen = @ \cup {addr}])

unfreeze(s, auth, addr) ==
    IF check_admin(s, auth) # "ok" THEN Fail(check_admin(s, auth), s)
    ELSE IF ~has_state(s) THEN Fail("Uninitialized", s)
    ELSE IF ~read_state(s).is_freezable THEN Fail("NotFreezable", s)
    ELSE Ok([s EXCEPT !.Frozen = @ \ {addr}])

set_frozen(s, auth, frozen) ==
    IF check_admin(s, auth) # "ok" THEN Fail(check_admin(s, auth), s)
    ELSE IF ~has_state(s) THEN Fail("Uninitialized", s)
    ELSE IF ~read_state(s).is_freezable THEN Fail("NotFreezable", s)
    ELSE Ok(write_state(s, [read_state(s) EXCEPT !.is_frozen = frozen]))

\* Mutant of set_admin: the admin field of TokenState is not rewritten.
set_admin_NoMirror(s, auth, new_admin) ==
    IF check_admin(s, auth) # "ok" THEN Fail(check_admin(s, auth), s)
    ELSE LET s1 == write_administrator(s, new_admin) IN
         IF ~has_state(s1) THEN Fail("Uninitialized", s1)
         ELSE Ok(s1)

set_admin(s, auth, new_admin) ==
    IF check_admin(s, auth) # "ok" THEN Fail(check_admin(s, auth), s)
    ELSE LET s1 == write_administrator(s, new_admin) IN
         IF ~has_state(s1) THEN Fail("Uninitialized", s1)
         ELSE Ok(write_state(s1, [read_state(s1) EXCEPT !.admin = new_admin]))

\* Read-only accessors.
admin(s) == read_administrator(s)

is_frozen(s, addr) ==
    IF read_state(s).is_frozen THEN TRUE ELSE addr \in s.Frozen

allowance(s, seq, from, spender) == read_allowance(s, seq, from, spender).amount

decimals(s) == read_decimal(s)

balance(s, id) == read_balance(s, id)

total_supply(s) == read_state(s).total_supply

max_supply(s) == read_state(s).max_supply

\* Mutant of approve: the token state is read first, as in transfer.
approve_RequiresState(s, auth, from, spender, amount, expiration_ledger) ==
    IF from \notin auth THEN Fail("AuthorizationFailed", s)
    ELSE IF ~has_state(s) THEN Fail("Uninitialized", s)
    ELSE Ok(write_allowance(s, from, spender, amount, expiration_ledger))

\* Mutant of approve: the amount is added to the stored amount.
approve_Accumulate(s, auth, from, spender, amount, expiration_ledger) ==
    IF from \notin auth THEN Fail("AuthorizationFailed", s)
    ELSE Ok(write_allowance(s, from, spender,
                            s.Allowance[<<from, spender>>].amount + amount,
                            expiration_ledger))

approve(s, auth, from, spender, amount, expiration_ledger) ==
    IF from \notin auth THEN Fail("AuthorizationFailed", s)
    ELSE Ok(write_allowance(s, from, spender, amount, expiration_ledger))

\* The balance movement shared by transfer and transfer_from.
move_balance(s, from, to, amount) ==
    LET r == spend_balance(s, from, amount) IN
    IF r.err # "ok" THEN r ELSE receive_balance(r.st, to, amount)

\* Mutant of transfer: the destination's freeze entry is not read.
transfer_NoToCheck(s, auth, from, to, amount) ==
    IF from \notin auth THEN Fail("AuthorizationFailed", s)
    ELSE IF ~has_state(s) THEN Fail("Uninitialized", s)
    ELSE IF read_state(s).is_frozen THEN Fail("GloballyFrozen", s)
    ELSE IF is_frozen(s, from) THEN Fail("AccountFrozen", s)
    ELSE move_balance(s, from, to, amount)

transfer(s, auth, from, to, amount) ==
    IF from \notin auth THEN Fail("AuthorizationFailed", s)
    ELSE IF ~has_state(s) THEN Fail("Uninitialized", s)
    ELSE IF read_state(s).is_frozen THEN Fail("GloballyFrozen", s)
    ELSE IF is_frozen(s, from) THEN Fail("AccountFrozen", s)
    ELSE IF is_frozen(s, to) THEN Fail("AccountFrozen", s)
    ELSE move_balance(s, from, to, amount)

\* Mutant of transfer_from: the allowance is not spent.
transfer_from_NoSpend(s, seq, auth, spender, from, to, amount) ==
    IF spender \notin auth THEN Fail("AuthorizationFailed", s)
    ELSE IF ~has_state(s) THEN Fail("Uninitialized", s)
    ELSE IF read_state(s).is_frozen THEN Fail("GloballyFrozen", s)
    ELSE IF is_frozen(s, from) THEN Fail("AccountFrozen", s)
    ELSE IF is_frozen(s, to) THEN Fail("AccountFrozen", s)
    ELSE move_balance(s, from, to, amount)

transfer_from(s, seq, auth, spender, from, to, amount) ==
    IF spender \notin auth THEN Fail("AuthorizationFailed", s)
    ELSE IF ~has_state(s) THEN Fail("Uninitialized", s)
    ELSE IF read_state(s).is_frozen THEN Fail("GloballyFrozen", s)
    ELSE IF is_frozen(s, from) THEN Fail("AccountFrozen", s)
    ELSE IF is_frozen(s, to) THEN Fail("AccountFrozen", s)
    ELSE LET r == spend_allowance(s, seq, from, spender, amount) IN
         IF r.err # "ok" THEN r ELSE move_balance(r.st, from, to, amount)

----------------------------------------------------------------------------
(* The host: one invocation at a time; a panic reverts the call's writes. *)

Commit(s, r) == IF r.err = "ok" THEN r.st ELSE s

\* Values stay within the explored range (the cap on the unbounded i128s).
InRange(s) ==
    /\ \A a \in DOMAIN s.Balance : s.Balance[a] \in (0 - MaxValue)..MaxValue
    /\ \A k \in DOMAIN s.Allowance :
            s.Allowance[k].amount \in (0 - MaxValue)..MaxValue
    /\ has_state(s) => read_state(s).total_supply \in (0 - MaxValue)..MaxValue

Init ==
    /\ storage = EmptyStorage
    /\ ledger = 0

Initialize ==
    \E a \in Address, decimal \in Decimals, name \in Names, symbol \in Symbols,
       m \in MaxSupplyArgs, mintable \in BOOLEAN, burnable \in BOOLEAN,
       freezable \in BOOLEAN :
        LET r == initialize(storage, a, decimal, name, symbol, m,
                            mintable, burnable, freezable) IN
        /\ InRange(Commit(storage, r))
        /\ storage' = Commit(storage, r)
        /\ UNCHANGED ledger

Mint ==
    \E auth \in Signers, to \in Address, amount \in Amounts :
        LET r == mint(storage, auth, to, amount) IN
        /\ InRange(Commit(storage, r))
        /\ storage' = Commit(storage, r)
        /\ UNCHANGED ledger

Burn ==
    \E auth \in Signers, from \in Address, amount \in Amounts :
        LET r == burn(storage, auth, from, amount) IN
        /\ InRange(Commit(storage, r))
        /\ storage' = Commit(storage, r)
        /\ UNCHANGED ledger

Freeze ==
    \E auth \in Signers, addr \in Address :
        LET r == freeze(storage, auth, addr) IN
        /\ InRange(Commit(storage, r))
        /\ storage' = Commit(storage, r)
        /\ UNCHANGED ledger

Unfreeze ==
    \E auth \in Signers, addr \in Address :
        LET r == unfreeze(storage, auth, addr) IN
        /\ InRange(Commit(storage, r))
        /\ storage' = Commit(storage, r)
        /\ UNCHANGED ledger

SetFrozen ==
    \E auth \in Signers, frozen \in BOOLEAN :
        LET r == set_frozen(storage, auth, frozen) IN
        /\ InRange(Commit(storage, r))
        /\ storage' = Commit(storage, r)
        /\ UNCHANGED ledger

SetAdmin ==
    \E auth \in Signers, new_admin \in Address :
        LET r == set_admin(storage, auth, new_admin) IN
        /\ InRange(Commit(storage, r))
        /\ storage' = Commit(storage, r)
        /\ UNCHANGED ledger

Approve ==
    \E auth \in Signers, from \in Owners, spender \in Spenders,
       amount \in Amounts, expiration_ledger \in Expirations :
        LET r == approve(storage, auth, from, spender, amount, expiration_ledger) IN
        /\ InRange(Commit(storage, r))
        /\ storage' = Commit(storage, r)
        /\ UNCHANGED ledger

Transfer ==
    \E auth \in Signers, from \in Address, to \in Address, amount \in Amounts :
        LET r == transfer(storage, auth, from, to, amount) IN
        /\ InRange(Commit(storage, r))
        /\ storage' = Commit(storage, r)
        /\ UNCHANGED ledger

TransferFrom ==
    \E auth \in Signers, spender \in Address, from \in Address,
       to \in Address, amount \in Amounts :
        LET r == transfer_from(storage, ledger, auth, spender, from, to, amount) IN
        /\ InRange(Commit(storage, r))
        /\ storage' = Commit(storage, r)
        /\ UNCHANGED ledger

\* The host closes a ledger: the sequence number grows.
AdvanceLedger ==
    /\ ledger < MaxLedger
    /\ ledger' = ledger + 1
    /\ UNCHANGED storage

Next ==
    \/ Initialize
    \/ Mint
    \/ Burn
    \/ Freeze
    \/ Unfreeze
    \/ SetFrozen
    \/ SetAdmin
    \/ Approve
    \/ Transfer
    \/ TransferFrom
    \/ AdvanceLedger

Spec == Init /\ [][Next]_vars

----------------------------------------------------------------------------
(* Properties *)

RECURSIVE SumOver(_, _)
SumOver(f, S) ==
    IF S = {} THEN 0
    ELSE LET a == CHOOSE x \in S : TRUE IN f[a] + SumOver(f, S \ {a})

\* The sum of all account balances.
SumBalances(s) == SumOver(s.Balance, Address)

\* The call with outcome r leaves the persisted state as it was.
Unchanged(r) == Commit(storage, r) = storage

\* C1: in every reachable state of the full-featured token, total_supply
\* equals the sum of all account balances.
C1_SupplyIsSumOfBalances ==
    /\ has_state(storage) => total_supply(storage) = SumBalances(storage)
    /\ ~has_state(storage) => SumBalances(storage) = 0

\* C1 witness: tokens were minted and moved: both accounts hold a positive
\* balance and the supply is their sum.
C1_Witness ==
    /\ has_state(storage)
    /\ balance(storage, "user1") = 1
    /\ balance(storage, "user2") = 2
    /\ total_supply(storage) = 3

\* C2: when max_supply is set, total_supply <= max_supply in every
\* reachable state.
C2_SupplyWithinMaxSupply ==
    has_state(storage) =>
        \A m \in max_supply(storage) : total_supply(storage) <= m

\* C3: no account balance is negative and total_supply is not negative, in
\* any reachable state (amount arguments include zero and negative ones).
C3_NonNegative ==
    /\ \A a \in Address : balance(storage, a) >= 0
    /\ has_state(storage) => total_supply(storage) >= 0

\* C3 witness: a state with a positive balance in which calls with a negative
\* amount are made: a transfer of -1 debits -1 from the source and is then
\* rejected when crediting, and a mint of -1 is rejected after the supply
\* was lowered.
C3_Witness ==
    /\ has_state(storage)
    /\ balance(storage, "user1") > 0
    /\ \E auth \in Signers :
          /\ transfer(storage, auth, "user1", "user2", -1).err = "InvalidAmount"
          /\ mint(storage, auth, "user1", -1).err = "InvalidAmount"
          /\ burn(storage, auth, "user2", -1).err = "ok"

\* The global freeze flag of TokenState is set.
GloballyFrozen(s) == has_state(s) /\ read_state(s).is_frozen

\* The call is authorised by the current administrator.
ByAdmin(s, auth) == has_administrator(s) /\ admin(s) \in auth

\* C4 as stated: while the global freeze flag is set, every transfer,
\* transfer_from, mint and burn call fails with GloballyFrozen and changes
\* nothing.
C4_FrozenFailsGloballyFrozen ==
    GloballyFrozen(storage) =>
        \A auth \in Signers, a \in Address, b \in Address, c \in Address, n \in Amounts :
            \A r \in {mint(storage, auth, a, n), burn(storage, auth, a, n),
                       transfer(storage, auth, a, b, n),
                       transfer_from(storage, ledger, auth, c, a, b, n)} :
                r.err = "GloballyFrozen" /\ Unchanged(r)

\* C4 amended: while the global freeze flag is set, every transfer,
\* transfer_from, mint and burn call fails and changes no balance, no
\* allowance and not total_supply; the failure is GloballyFrozen when the
\* call carries the authorisation it requires and, for mint and burn, the
\* capability is enabled (the authorisation and capability checks come
\* first).
C4_FrozenBlocksAll ==
    GloballyFrozen(storage) =>
        \A auth \in Signers, a \in Address, b \in Address, c \in Address, n \in Amounts :
            LET m == mint(storage, auth, a, n)
                u == burn(storage, auth, a, n)
                x == transfer(storage, auth, a, b, n)
                y == transfer_from(storage, ledger, auth, c, a, b, n)
            IN /\ \A r \in {m, u, x, y} : r.err # "ok" /\ Unchanged(r)
               /\ ByAdmin(storage, auth) /\ read_state(storage).is_mintable
                    => m.err = "GloballyFrozen"
               /\ ByAdmin(storage, auth) /\ read_state(storage).is_burnable
                    => u.err = "GloballyFrozen"
               /\ a \in auth => x.err = "GloballyFrozen"
               /\ c \in auth => y.err = "GloballyFrozen"

\* C4 witness: the flag is set on a token with a positive balance and a live
\* allowance covered by the balance, and authorised mint, burn, transfer and
\* transfer_from calls are refused with GloballyFrozen.
C4_Witness ==
    /\ GloballyFrozen(storage)
    /\ balance(storage, "user1") > 0
    /\ allowance(storage, ledger, "user1", "user2") > 0
    /\ mint(storage, {admin(storage)}, "user1", 1).err = "GloballyFrozen"
    /\ burn(storage, {admin(storage)}, "user1", 1).err = "GloballyFrozen"
    /\ transfer(storage, {"user1"}, "user1", "user2", 1).err = "GloballyFrozen"
    /\ transfer_from(storage, ledger, {"user2"}, "user2", "user1", "user2", 1).err
            = "GloballyFrozen"

\* C5 as stated: a transfer or transfer_from whose from or to has a freeze
\* entry fails with AccountFrozen and changes nothing; a call succeeds only
\* when neither endpoint is frozen and the global flag is clear.
C5_FrozenEndpointFailsAccountFrozen ==
    \A auth \in Signers, a \in Address, b \in Address, c \in Address, n \in Amounts :
        \A r \in {transfer(storage, auth, a, b, n),
                   transfer_from(storage, ledger, auth, c, a, b, n)} :
            /\ (a \in storage.Frozen \/ b \in storage.Frozen)
                    => r.err = "AccountFrozen" /\ Unchanged(r)
            /\ r.err = "ok" => /\ a \notin storage.Frozen
                               /\ b \notin storage.Frozen
                               /\ ~GloballyFrozen(storage)

\* C5 amended: a transfer or transfer_from whose from or to has a freeze
\* entry fails and changes no balance and no allowance; the failure is
\* AccountFrozen when the call carries the authorisation it requires (from,
\* resp. spender) and the global flag is clear; a call succeeds only when
\* neither endpoint is frozen and the global flag is clear.
C5_FrozenEndpointBlocksTransfer ==
    \A auth \in Signers, a \in Address, b \in Address, c \in Address, n \in Amounts :
        LET x == transfer(storage, auth, a, b, n)
            y == transfer_from(storage, ledger, auth, c, a, b, n)
        IN /\ (a \in storage.Frozen \/ b \in storage.Frozen) =>
                /\ \A r \in {x, y} : r.err # "ok" /\ Unchanged(r)
                /\ a \in auth /\ ~GloballyFrozen(storage) => x.err = "AccountFrozen"
                /\ c \in auth /\ ~GloballyFrozen(storage) => y.err = "AccountFrozen"
           /\ \A r \in {x, y} :
                r.err = "ok" => /\ a \notin storage.Frozen
                               /\ b \notin storage.Frozen
                               /\ ~GloballyFrozen(storage)

\* C5 witness: only the destination has a freeze entry, the global flag is
\* clear, the source holds tokens and has granted a live allowance: the
\* transfer and the transfer_from towards the frozen account are refused
\* with AccountFrozen, the same transfer to the source itself is accepted.
C5_Witness ==
    /\ has_state(storage) /\ ~GloballyFrozen(storage)
    /\ storage.Frozen = {"user2"}
    /\ balance(storage, "user1") > 0
    /\ allowance(storage, ledger, "user1", "user2") > 0
    /\ transfer(storage, {"user1"}, "user1", "user2", 1).err = "AccountFrozen"
    /\ transfer_from(storage, ledger, {"user2"}, "user2", "user1", "user2", 1).err
            = "AccountFrozen"
    /\ transfer(storage, {"user1"}, "user1", "user1", 1).err = "ok"

\* C6: while an account has a freeze entry, no mint to it and no burn from
\* it changes its balance or total_supply.
C6_FrozenAccountNotMintedNorBurned ==
    \A auth \in Signers, a \in storage.Frozen, n \in Amounts :
        /\ Unchanged(mint(storage, auth, a, n))
        /\ Unchanged(burn(storage, auth, a, n))

\* C7: a mint with amount <= 0 (that the administrator authorised, on a
\* mintable token that is not globally frozen) fails with InvalidAmount and
\* leaves total_supply and every balance unchanged.
C7_MintRejectsNonPositive ==
    \A auth \in Signers, to \in Address, n \in Amounts :
        (/\ n <= 0
         /\ ByAdmin(storage, auth)
         /\ has_state(storage)
         /\ read_state(storage).is_mintable
         /\ ~GloballyFrozen(storage))
        => LET r == mint(storage, auth, to, n)
           IN r.err = "InvalidAmount" /\ Unchanged(r)

\* Outcomes of all administrative calls on s carrying the authorisations auth.
AdminResults(s, auth) ==
    {mint(s, auth, a, n) : a \in Address, n \in Amounts}
        \cup {burn(s, auth, a, n) : a \in Address, n \in Amounts}
        \cup {freeze(s, auth, a) : a \in Address}
        \cup {unfreeze(s, auth, a) : a \in Address}
        \cup {set_frozen(s, auth, b) : b \in BOOLEAN}
        \cup {set_admin(s, auth, a) : a \in Address}

\* C8: mint, burn, freeze, unfreeze, set_frozen and set_admin change state
\* only when authorised by the current administrator; after a successful
\* set_admin(n) the authorisation of the previous administrator alone makes
\* each of them fail, and the authorisation of n passes the admin check.
C8_AdminOnly ==
    /\ \A auth \in SUBSET Address :
          ~ByAdmin(storage, auth) =>
              \A r \in AdminResults(storage, auth) : r.err # "ok" /\ Unchanged(r)
    /\ \A auth \in SUBSET Address, n \in Address :
          LET r == set_admin(storage, auth, n) IN
          (r.err = "ok" /\ n # admin(storage)) =>
              /\ admin(r.st) = n
              /\ \A q \in AdminResults(r.st, {admin(storage)}) :
                    q.err = "AuthorizationFailed" /\ Commit(r.st, q) = r.st
              /\ check_admin(r.st, {n}) = "ok"
              /\ freeze(r.st, {n}, n).err \in {"ok", "NotFreezable"}

\* C8 witness: an initialised token with a positive supply whose
\* administrator hands over to the other principal; the previous
\* administrator's mint is then refused.
C8_Witness ==
    /\ has_state(storage)
    /\ total_supply(storage) > 0
    /\ read_state(storage).is_mintable
    /\ ~GloballyFrozen(storage)
    /\ admin(storage) = "user1"
    /\ LET r == set_admin(storage, {"user1"}, "user2") IN
         /\ r.err = "ok"
         /\ mint(r.st, {"user1"}, "user1", 1).err = "AuthorizationFailed"
         /\ mint(r.st, {"user2"}, "user1", 1).err = "ok"
    /\ mint(storage, {"user2"}, "user1", 1).err = "AuthorizationFailed"

\* C9: initialize succeeds at most once: once the administrator is stored it
\* stays stored, and every initialize call then fails with
\* AlreadyInitialized and leaves the whole state unchanged.
C9_InitializeOnce ==
    /\ [](has_administrator(storage) =>
            \A a \in Address, decimal \in Decimals, name \in Names,
               symbol \in Symbols, m \in MaxSupplyArgs, mintable \in BOOLEAN,
               burnable \in BOOLEAN, freezable \in BOOLEAN :
                LET r == initialize(storage, a, decimal, name, symbol, m,
                                    mintable, burnable, freezable)
                IN r.err = "AlreadyInitialized" /\ Unchanged(r))
    /\ [][has_administrator(storage) => has_administrator(storage')]_vars

\* C9 witness: an initialised token with a positive supply, a frozen account
\* and the global flag set, on which another initialize (with another
\* administrator and other flags) is refused.
C9_Witness ==
    /\ has_administrator(storage)
    /\ total_supply(storage) > 0
    /\ storage.Frozen # {}
    /\ GloballyFrozen(storage)
    /\ admin(storage) = "user1"
    /\ initialize(storage, "user2", 7, "Test Token", "TEST", {}, FALSE, FALSE, FALSE).err
            = "AlreadyInitialized"

\* The conditions that make a call fail: a missing authorisation, a violated
\* precondition (token not initialised, capability not enabled, token or
\* account frozen, supply cap exceeded, negative amount credited), an
\* insufficient balance, an expired or insufficient allowance.
MintFails(s, auth, amount) ==
    \/ ~ByAdmin(s, auth)
    \/ ~has_state(s)
    \/ ~read_state(s).is_mintable
    \/ read_state(s).is_frozen
    \/ \E m \in read_state(s).max_supply : read_state(s).total_supply + amount > m
    \/ amount < 0

BurnFails(s, auth, from, amount) ==
    \/ ~ByAdmin(s, auth)
    \/ ~has_state(s)
    \/ ~read_state(s).is_burnable
    \/ read_state(s).is_frozen
    \/ balance(s, from) < amount

FreezeFails(s, auth) ==
    \/ ~ByAdmin(s, auth)
    \/ ~has_state(s)
    \/ ~read_state(s).is_freezable

SetAdminFails(s, auth) ==
    \/ ~ByAdmin(s, auth)
    \/ ~has_state(s)

TransferFails(s, auth, from, to, amount) ==
    \/ from \notin auth
    \/ ~has_state(s)
    \/ is_frozen(s, from)
    \/ is_frozen(s, to)
    \/ balance(s, from) < amount
    \/ amount < 0

TransferFromFails(s, seq, auth, spender, from, to, amount) ==
    \/ spender \notin auth
    \/ ~has_state(s)
    \/ is_frozen(s, from)
    \/ is_frozen(s, to)
    \/ seq > s.Allowance[<<from, spender>>].expiration_ledger
    \/ s.Allowance[<<from, spender>>].amount < amount
    \/ balance(s, from) < amount
    \/ amount < 0

\* The call with outcome r fails exactly when fails holds, and then the
\* state after the call is the state before it.
FailsCleanly(r, fails) ==
    /\ (r.err # "ok") <=> fails
    /\ fails => Commit(storage, r) = storage

\* C10: every call fails exactly under the failure conditions of its
\* operation, and every call made under them leaves the whole persisted
\* state unchanged, including the writes it made before the failing step: a
\* mint whose credit fails leaves total_supply unchanged, and a
\* transfer_from that fails on the balance leaves the allowance unchanged.
C10_FailedCallChangesNothing ==
    /\ \A auth \in Signers :
          /\ \A a \in Address, n \in Amounts :
                /\ FailsCleanly(mint(storage, auth, a, n), MintFails(storage, auth, n))
                /\ FailsCleanly(burn(storage, auth, a, n),
                                BurnFails(storage, auth, a, n))
          /\ \A a \in Address :
                /\ FailsCleanly(freeze(storage, auth, a), FreezeFails(storage, auth))
                /\ FailsCleanly(unfreeze(storage, auth, a), FreezeFails(storage, auth))
                /\ FailsCleanly(set_admin(storage, auth, a),
                                SetAdminFails(storage, auth))
          /\ \A f \in BOOLEAN :
                FailsCleanly(set_frozen(storage, auth, f), FreezeFails(storage, auth))
          /\ \A a \in Address, b \in Address, n \in Amounts, e \in Expirations :
                FailsCleanly(approve(storage, auth, a, b, n, e), a \notin auth)
          /\ \A a \in Address, b \in Address, n \in Amounts :
                FailsCleanly(transfer(storage, auth, a, b, n),
                             TransferFails(storage, auth, a, b, n))
          /\ \A c \in Address, a \in Address, b \in Address, n \in Amounts :
                FailsCleanly(transfer_from(storage, ledger, auth, c, a, b, n),
                             TransferFromFails(storage, ledger, auth, c, a, b, n))
    /\ \A a \in Address, decimal \in Decimals, nm \in Names, sym \in Symbols,
          m \in MaxSupplyArgs, mintable \in BOOLEAN, burnable \in BOOLEAN,
          freezable \in BOOLEAN :
          FailsCleanly(initialize(storage, a, decimal, nm, sym, m, mintable,
                                  burnable, freezable),
                       has_administrator(storage))
    /\ \A auth \in Signers, a \in Address, n \in Amounts :
          (~MintFails(storage, auth, 0) /\ n < 0) =>
                total_supply(Commit(storage, mint(storage, auth, a, n)))
                    = total_supply(storage)
    /\ \A auth \in Signers, a \in Address, b \in Address, c \in Address,
          n \in Amounts :
             (/\ ~TransferFromFails(storage, ledger, auth, c, a, b, 0)
              /\ n >= 0
              /\ n <= storage.Allowance[<<a, c>>].amount
              /\ balance(storage, a) < n) =>
                Commit(storage, transfer_from(storage, ledger, auth, c, a, b, n)).Allowance
                    = storage.Allowance

\* C10 witness: a state in which a mint fails while crediting the balance
\* after it wrote the raised supply, and a transfer_from fails on
\* insufficient balance after it wrote the lowered allowance.
C10_Witness ==
    /\ has_state(storage)
    /\ LET r == mint(storage, {admin(storage)}, "user1", -1) IN
         /\ r.err = "InvalidAmount"
         /\ total_supply(r.st) # total_supply(storage)
         /\ Commit(storage, r) = storage
    /\ LET r == transfer_from(storage, ledger, {"user2"}, "user2", "user1", "user2", 1) IN
         /\ r.err = "InsufficientBalance"
         /\ allowance(r.st, ledger, "user1", "user2")
                = allowance(storage, ledger, "user1", "user2") - 1
         /\ Commit(storage, r) = storage

----------------------------------------------------------------------------
(* lib.rs: the token the tests exercise.  Its instance entries are ADMIN,  *)
(* NAME, SYMBOL, DECIMAL and SUPPLY; a balance is a persistent entry keyed *)
(* by the address itself and is absent until first written.                *)

EmptyLibStorage == [Instance |-> <<>>, Persistent |-> <<>>]

\* storage.get(&key).unwrap_or(default)
get_or(m, k, default) == IF k \in DOMAIN m THEN m[k] ELSE default

lib_initialize(s, a, decimal, nm, sym) ==
    LET s1 == [s  EXCEPT !.Instance = Put(@, "ADMIN", a)]
        s2 == [s1 EXCEPT !.Instance = Put(@, "NAME", nm)]
        s3 == [s2 EXCEPT !.Instance = Put(@, "SYMBOL", sym)]
        s4 == [s3 EXCEPT !.Instance = Put(@, "DECIMAL", decimal)]
        s5 == [s4 EXCEPT !.Instance = Put(@, "SUPPLY", 0)]
    IN Ok(s5)

lib_name(s) == get_or(s.Instance, "NAME", "")

lib_symbol(s) == get_or(s.Instance, "SYMBOL", "")

lib_decimals(s) == get_or(s.Instance, "DECIMAL", 0)

lib_total_supply(s) == get_or(s.Instance, "SUPPLY", 0)

lib_balance(s, id) == get_or(s.Persistent, id, 0)

lib_mint(s, auth, to, amount) ==
    IF "ADMIN" \notin DOMAIN s.Instance THEN Fail("Uninitialized", s)
    ELSE IF s.Instance["ADMIN"] \notin auth THEN Fail("AuthorizationFailed", s)
    ELSE
        LET bal    == get_or(s.Persistent, to, 0)
            s1     == [s EXCEPT !.Persistent = Put(@, to, bal + amount)]
            supply == get_or(s1.Instance, "SUPPLY", 0)
        IN Ok([s1 EXCEPT !.Instance = Put(@, "SUPPLY", supply + amount)])

\* The transfer without the balance test of lines 71-73.
lib_transfer_NoBalanceCheck(s, auth, from, to, amount) ==
    IF from \notin auth THEN Fail("AuthorizationFailed", s)
    ELSE
        LET from_balance == get_or(s.Persistent, from, 0)
            to_balance   == get_or(s.Persistent, to, 0)
            s1 == [s EXCEPT !.Persistent = Put(@, from, from_balance - amount)]
        IN Ok([s1 EXCEPT !.Persistent = Put(@, to, to_balance + amount)])

\* Both balances are read before either is written: with from = to the
\* second write replaces the first.
lib_transfer(s, auth, from, to, amount) ==
    IF from \notin auth THEN Fail("AuthorizationFailed", s)
    ELSE
        LET from_balance == get_or(s.Persistent, from, 0)
            to_balance   == get_or(s.Persistent, to, 0)
        IN IF from_balance < amount THEN Fail("InsufficientBalance", s)
           ELSE
               LET s1 == [s EXCEPT !.Persistent = Put(@, from, from_balance - amount)]
               IN Ok([s1 EXCEPT !.Persistent = Put(@, to, to_balance + amount)])

InRangeLib(s) ==
    /\ \A a \in DOMAIN s.Persistent : s.Persistent[a] \in (0 - MaxValue)..MaxValue
    /\ lib_total_supply(s) \in (0 - MaxValue)..MaxValue

InitLib ==
    /\ storage = EmptyLibStorage
    /\ ledger = 0

LibInitialize ==
    \E a \in Address, decimal \in Decimals, nm \in Names, sym \in Symbols :
        LET r == lib_initialize(storage, a, decimal, nm, sym) IN
        /\ InRangeLib(Commit(storage, r))
        /\ storage' = Commit(storage, r)
        /\ UNCHANGED ledger

LibMint ==
    \E auth \in Signers, to \in Address, amount \in Amounts :
        LET r == lib_mint(storage, auth, to, amount) IN
        /\ InRangeLib(Commit(storage, r))
        /\ storage' = Commit(storage, r)
        /\ UNCHANGED ledger

LibTransfer ==
    \E auth \in Signers, from \in Address, to \in Address, amount \in Amounts :
        LET r == lib_transfer(storage, auth, from, to, amount) IN
        /\ InRangeLib(Commit(storage, r))
        /\ storage' = Commit(storage, r)
        /\ UNCHANGED ledger

NextLib ==
    \/ LibInitialize
    \/ LibMint
    \/ LibTransfer

SpecLib == InitLib /\ [][NextLib]_vars

\* The sum of all account balances of the lib.rs token.
LibSumBalances(s) == SumOver([a \in Address |-> lib_balance(s, a)], Address)

\* C11: every successful transfer of the lib.rs token leaves total_supply and
\* the sum of all balances unchanged, for every from and to including
\* from = to, and with from # to it lowers balance(from) and raises
\* balance(to) by exactly amount.
C11_LibTransferConserves ==
    \A auth \in Signers, from \in Address, to \in Address, amount \in Amounts :
        LET r == lib_transfer(storage, auth, from, to, amount) IN
        r.err = "ok" =>
            /\ lib_total_supply(r.st) = lib_total_supply(storage)
            /\ LibSumBalances(r.st) = LibSumBalances(storage)
            /\ from # to =>
                /\ lib_balance(r.st, from) = lib_balance(storage, from) - amount
                /\ lib_balance(r.st, to) = lib_balance(storage, to) + amount

\* C12 as stated: every transfer of the lib.rs token with amount greater
\* than balance(from) fails with InsufficientBalance and changes nothing.
C12_LibOverdrawFailsInsufficientBalance ==
    \A auth \in Signers, from \in Address, to \in Address, amount \in Amounts :
        LET r == lib_transfer(storage, auth, from, to, amount) IN
        amount > lib_balance(storage, from) =>
            r.err = "InsufficientBalance" /\ Unchanged(r)

\* C12: a transfer of the lib.rs token with amount greater than
\* balance(from) fails and leaves every balance and total_supply unchanged,
\* also when from has no balance entry; the failure is InsufficientBalance
\* when the call carries the authorisation of from.
C12_LibOverdrawFails ==
    \A auth \in Signers, from \in Address, to \in Address, amount \in Amounts :
        LET r == lib_transfer(storage, auth, from, to, amount) IN
        amount > lib_balance(storage, from) =>
            /\ r.err # "ok"
            /\ Unchanged(r)
            /\ from \in auth => r.err = "InsufficientBalance"

\* C12 witness: user2 has no balance entry while user1 holds tokens, and a
\* transfer authorised by user2 of more than it holds fails on the balance
\* test.
C12_Witness ==
    /\ "user2" \notin DOMAIN storage.Persistent
    /\ lib_balance(storage, "user1") > 0
    /\ lib_transfer(storage, {"user2"}, "user2", "user1", 1).err = "InsufficientBalance"
    /\ lib_transfer(storage, {"user1"}, "user1", "user2", 2).err = "InsufficientBalance"

----------------------------------------------------------------------------
(* Allowances of the full-featured token *)

\* Outcomes of all calls on s other than approve and transfer_from.
NonAllowanceResults(s) ==
    UNION {AdminResults(s, auth) : auth \in Signers}
        \cup {initialize(s, a, decimal, name, symbol, m, mintable, burnable, freezable) :
                a \in Address, decimal \in Decimals, name \in Names,
                symbol \in Symbols, m \in MaxSupplyArgs, mintable \in BOOLEAN,
                burnable \in BOOLEAN, freezable \in BOOLEAN}
        \cup {transfer(s, auth, a, b, n) :
                auth \in Signers, a \in Address, b \in Address, n \in Amounts}

\* C14: after a successful approve(o, s, A, E), allowance(o, s) returns A at
\* every ledger sequence up to E and 0 at every later one, whatever entry
\* was stored before (approve overwrites, it does not add); no call other
\* than approve and transfer_from changes an allowance entry.
C14_ApproveAllowanceRoundTrip ==
    /\ \A auth \in Signers, o \in Address, s \in Address, A \in Amounts,
          E \in Expirations :
            LET r == approve(storage, auth, o, s, A, E) IN
            r.err = "ok" =>
                /\ r.st.Allowance[<<o, s>>] = AllowanceValue(A, E)
                /\ \A seq \in ledger..(MaxLedger + 1) :
                      allowance(r.st, seq, o, s) = IF seq <= E THEN A ELSE 0
    /\ \A r \in NonAllowanceResults(storage) :
            Commit(storage, r).Allowance = storage.Allowance

\* C14 witness: an allowance of a positive amount was approved, the ledger
\* has passed its expiration and allowance() returns 0; a new approve on top
\* of the stored entry succeeds.
C14_Witness ==
    /\ storage.Allowance[<<"user1", "user2">>].amount > 0
    /\ ledger > storage.Allowance[<<"user1", "user2">>].expiration_ledger
    /\ allowance(storage, ledger, "user1", "user2") = 0
    /\ approve(storage, {"user1"}, "user1", "user2", 1, 1).err = "ok"

\* The stored allowance of spender on from has expired at sequence seq.
Expired(s, seq, from, spender) ==
    seq > s.Allowance[<<from, spender>>].expiration_ledger

\* C15 as stated: every transfer_from called after the stored expiration of
\* its allowance fails with AllowanceExpired and changes nothing.
C15_ExpiredFailsAllowanceExpired ==
    \A auth \in Signers, c \in Address, a \in Address, b \in Address, n \in Amounts :
        LET r == transfer_from(storage, ledger, auth, c, a, b, n) IN
        Expired(storage, ledger, a, c) =>
            r.err = "AllowanceExpired" /\ Unchanged(r)

\* C15 amended: a transfer_from called after the stored expiration of its
\* allowance fails, whatever amount is stored and requested, and changes no
\* balance and no allowance; the failure is AllowanceExpired when the call
\* is authorised by the spender, the token is initialised and neither the
\* token nor from nor to is frozen.
C15_ExpiredBlocksTransferFrom ==
    \A auth \in Signers, c \in Address, a \in Address, b \in Address, n \in Amounts :
        LET r == transfer_from(storage, ledger, auth, c, a, b, n) IN
        Expired(storage, ledger, a, c) =>
            /\ r.err # "ok"
            /\ Unchanged(r)
            /\ (/\ c \in auth
                /\ has_state(storage)
                /\ ~is_frozen(storage, a)
                /\ ~is_frozen(storage, b)) => r.err = "AllowanceExpired"

\* C15 witness: user1 holds tokens and granted user2 a positive allowance
\* that has expired; a transfer_from by user2 within the stored amount fails
\* with AllowanceExpired.
C15_Witness ==
    /\ has_state(storage)
    /\ balance(storage, "user1") > 0
    /\ storage.Allowance[<<"user1", "user2">>].amount > 0
    /\ Expired(storage, ledger, "user1", "user2")
    /\ transfer_from(storage, ledger, {"user2"}, "user2", "user1", "user2", 1).err
            = "AllowanceExpired"

----------------------------------------------------------------------------
(* Freezing and administration *)

\* C17: an unfreeze authorised by the administrator on a freezable token
\* succeeds; on an account without a freeze entry it leaves the whole state
\* unchanged, and a second unfreeze leaves the state the first one produced.
C17_UnfreezeIdempotent ==
    \A auth \in Signers, a \in Address :
        LET r == unfreeze(storage, auth, a) IN
        (/\ has_state(storage)
         /\ ByAdmin(storage, auth)
         /\ read_state(storage).is_freezable) =>
            /\ r.err = "ok"
            /\ a \notin storage.Frozen => r.st = storage
            /\ a \notin r.st.Frozen
            /\ r.st.Frozen = storage.Frozen \ {a}
            /\ LET r2 == unfreeze(r.st, auth, a) IN
                 r2.err = "ok" /\ r2.st = r.st

\* C17 witness: on a freezable token with tokens in circulation user2 is
\* frozen and user1 is not; the administrator's unfreeze(user1) succeeds and
\* changes nothing.
C17_Witness ==
    /\ has_state(storage)
    /\ read_state(storage).is_freezable
    /\ total_supply(storage) > 0
    /\ storage.Frozen = {"user2"}
    /\ LET r == unfreeze(storage, {admin(storage)}, "user1") IN
         r.err = "ok" /\ r.st = storage

\* C18: once initialised, the Admin entry and the admin field of TokenState
\* are equal in every reachable state, and every successful set_admin(n)
\* leaves both equal to n.
C18_AdminMirrored ==
    /\ has_administrator(storage) =>
          has_state(storage) /\ read_administrator(storage) = read_state(storage).admin
    /\ has_state(storage) => has_administrator(storage)
    /\ \A auth \in Signers, n \in Address :
          LET r == set_admin(storage, auth, n) IN
          r.err = "ok" =>
              read_administrator(r.st) = n /\ read_state(r.st).admin = n

\* C18 witness: the administrator hands the role to another address: the
\* set_admin succeeds and both copies name the new administrator.
C18_Witness ==
    /\ has_state(storage)
    /\ total_supply(storage) > 0
    /\ \E n \in Address :
          LET r == set_admin(storage, {admin(storage)}, n) IN
          /\ n # admin(storage)
          /\ r.err = "ok"
          /\ read_administrator(r.st) = n
          /\ read_state(r.st).admin = n

----------------------------------------------------------------------------
(* Metadata, supply and the uninitialised contract *)

\* C16: decimals(), name() and symbol() return the decimal, name and symbol
\* passed to initialize, right after it and in every later state.
C16_MetadataAsInitialized ==
    /\ \A a \in Address, decimal \in Decimals, nm \in Names, sym \in Symbols,
          m \in MaxSupplyArgs, mintable \in BOOLEAN, burnable \in BOOLEAN,
          freezable \in BOOLEAN :
            LET r == initialize(storage, a, decimal, nm, sym, m, mintable,
                                burnable, freezable) IN
            r.err = "ok" =>
                /\ decimals(r.st) = [err |-> "ok", val |-> decimal]
                /\ read_name(r.st) = [err |-> "ok", val |-> nm]
                /\ read_symbol(r.st) = [err |-> "ok", val |-> sym]
    /\ has_administrator(storage) =>
            /\ decimals(storage).err = "ok" /\ decimals(storage).val \in Decimals
            /\ read_name(storage).err = "ok" /\ read_name(storage).val \in Names
            /\ read_symbol(storage).err = "ok" /\ read_symbol(storage).val \in Symbols

\* C19: no successful call other than mint raises total_supply; a
\* successful burn raises neither total_supply nor balance(from); a token
\* that is not mintable has total_supply 0.
C19_SupplyRaisedOnlyByMint ==
    has_state(storage) =>
        /\ \A auth \in Signers, a \in Address, b \in Address, c \in Address,
              n \in Amounts, f \in BOOLEAN :
                \A r \in {burn(storage, auth, a, n), freeze(storage, auth, a),
                           unfreeze(storage, auth, a), set_frozen(storage, auth, f),
                           set_admin(storage, auth, a),
                           transfer(storage, auth, a, b, n),
                           transfer_from(storage, ledger, auth, c, a, b, n)} :
                    r.err = "ok" => total_supply(r.st) <= total_supply(storage)
        /\ \A auth \in Signers, a \in Address, n \in Amounts :
                LET r == burn(storage, auth, a, n) IN
                r.err = "ok" =>
                    /\ total_supply(r.st) <= total_supply(storage)
                    /\ balance(r.st, a) <= balance(storage, a)
        /\ ~read_state(storage).is_mintable => total_supply(storage) = 0

\* Outcomes of all transfer and transfer_from calls on s authorised by auth
\* in which from is the account whose authorisation the call requires
\* (from itself, resp. the spender).
MoveResults(s, seq, auth, who) ==
    {transfer(s, auth, who, b, n) : b \in Address, n \in Amounts}
        \cup {transfer_from(s, seq, auth, who, a, b, n) :
                a \in Address, b \in Address, n \in Amounts}

\* C20 as stated: before initialize has succeeded the persisted state is
\* empty and every mint, burn, freeze, unfreeze, set_frozen, set_admin,
\* approve, transfer and transfer_from fails with Uninitialized and writes
\* nothing.
C20_UninitializedRejectsAll ==
    ~has_administrator(storage) =>
        /\ storage = EmptyStorage
        /\ \A auth \in Signers :
              /\ \A r \in AdminResults(storage, auth) :
                    r.err = "Uninitialized" /\ Unchanged(r)
              /\ \A who \in Address : \A r \in MoveResults(storage, ledger, auth, who) :
                    r.err = "Uninitialized" /\ Unchanged(r)
              /\ \A a \in Address, b \in Address, n \in Amounts, e \in Expirations :
                    LET r == approve(storage, auth, a, b, n, e) IN
                    r.err = "Uninitialized" /\ Unchanged(r)

\* C20 amended: before initialize has succeeded there is no token state, no
\* balance and no freeze entry, and every mint, burn, freeze, unfreeze,
\* set_frozen, set_admin, transfer and transfer_from fails and writes
\* nothing: with Uninitialized, or with AuthorizationFailed for a transfer or
\* transfer_from lacking the authorisation of from resp. the spender.  An
\* approve authorised by from succeeds and writes the allowance entry.
C20_UninitializedRejectsAllButApprove ==
    ~has_administrator(storage) =>
        /\ [storage EXCEPT !.Allowance = EmptyStorage.Allowance] = EmptyStorage
        /\ \A auth \in Signers :
              /\ \A r \in AdminResults(storage, auth) :
                    r.err = "Uninitialized" /\ Unchanged(r)
              /\ \A who \in Address : \A r \in MoveResults(storage, ledger, auth, who) :
                    /\ Unchanged(r)
                    /\ r.err = IF who \in auth THEN "Uninitialized"
                               ELSE "AuthorizationFailed"
              /\ \A a \in Address, b \in Address, n \in Amounts, e \in Expirations :
                    LET r == approve(storage, auth, a, b, n, e) IN
                    IF a \in auth
                    THEN r.err = "ok"
                         /\ r.st = [storage EXCEPT !.Allowance[<<a, b>>] =
                                                     AllowanceValue(n, e)]
                    ELSE r.err = "AuthorizationFailed" /\ Unchanged(r)

\* C20 witness: the contract is not initialised, an approve has written an
\* allowance, and a mint and an authorised transfer fail with Uninitialized.
C20_Witness ==
    /\ ~has_administrator(storage)
    /\ storage.Allowance[<<"user1", "user2">>].amount > 0
    /\ mint(storage, {"user1"}, "user1", 1).err = "Uninitialized"
    /\ transfer(storage, {"user1"}, "user1", "user2", 1).err = "Uninitialized"
    /\ transfer_from(storage, ledger, {"user2"}, "user2", "user1", "user2", 1).err
            = "Uninitialized"

----------------------------------------------------------------------------
(* The allowance an owner grants to a spender, traced: the storage carries *)
(* two history fields that no handler reads, Granted (the amount of the    *)
(* last successful approve, as an Option) and Spent (the sum of the        *)
(* amounts of the successful transfer_from calls since).                   *)

EmptyTraced ==
    [Instance  |-> EmptyStorage.Instance,
     Balance   |-> EmptyStorage.Balance,
     Allowance |-> EmptyStorage.Allowance,
     Frozen    |-> EmptyStorage.Frozen,
     Granted   |-> {},
     Spent     |-> 0]

InitTraced ==
    /\ storage = EmptyTraced
    /\ ledger = 0

ApproveTraced ==
    \E auth \in Signers, from \in Owners, spender \in Spenders,
       amount \in Amounts, expiration_ledger \in Expirations :
        LET r  == approve(storage, auth, from, spender, amount, expiration_ledger)
            s1 == Commit(storage, r)
        IN /\ InRange(s1)
           /\ storage' = IF r.err = "ok"
                         THEN [s1 EXCEPT !.Granted = {amount}, !.Spent = 0]
                         ELSE s1
           /\ UNCHANGED ledger

TransferFromTraced ==
    \E auth \in Signers, spender \in Address, from \in Address,
       to \in Address, amount \in Amounts :
        LET r  == transfer_from(storage, ledger, auth, spender, from, to, amount)
            s1 == Commit(storage, r)
            s2 == IF r.err = "ok" /\ from \in Owners /\ spender \in Spenders
                  THEN [s1 EXCEPT !.Spent = @ + amount]
                  ELSE s1
        IN /\ InRange(s1)
           /\ s2.Spent \in (0 - MaxValue)..MaxValue
           /\ storage' = s2
           /\ UNCHANGED ledger

NextTraced ==
    \/ Initialize
    \/ Mint
    \/ Burn
    \/ Freeze
    \/ Unfreeze
    \/ SetFrozen
    \/ SetAdmin
    \/ ApproveTraced
    \/ Transfer
    \/ TransferFromTraced
    \/ AdvanceLedger

SpecTraced == InitTraced /\ [][NextTraced]_vars

\* C13 as stated: after approve(o, s, A, E) the amounts of the successful
\* transfer_from(s, o, ., .) calls sum to at most A; each success lowers
\* allowance(o, s) by exactly its amount; a request larger than the
\* remaining allowance fails with InsufficientAllowance and changes nothing.
C13_SpentAtMostApproved ==
    \A A \in storage.Granted, o \in Owners, sp \in Spenders :
        /\ storage.Spent <= A
        /\ storage.Allowance[<<o, sp>>].amount = A - storage.Spent
        /\ \A auth \in Signers, to \in Address, n \in Amounts :
              LET r == transfer_from(storage, ledger, auth, sp, o, to, n) IN
              /\ r.err = "ok" =>
                    allowance(r.st, ledger, o, sp) = allowance(storage, ledger, o, sp) - n
              /\ n > allowance(storage, ledger, o, sp) =>
                    r.err = "InsufficientAllowance" /\ Unchanged(r)

\* C13 amended: after approve(o, s, A, E) the amounts of the successful
\* transfer_from(s, o, ., .) calls sum to at most A when A >= 0, and no
\* call succeeds when A < 0; each success lowers allowance(o, s) by exactly
\* its amount; a request larger than the remaining allowance fails and
\* changes nothing, with InsufficientAllowance when the call is authorised
\* by the spender, the token is initialised, neither the token nor o nor to
\* is frozen and the allowance has not expired.
C13_SpentWithinApproved ==
    \A A \in storage.Granted, o \in Owners, sp \in Spenders :
        /\ storage.Spent >= 0
        /\ A >= 0 => storage.Spent <= A
        /\ A < 0 => storage.Spent = 0
        /\ storage.Allowance[<<o, sp>>].amount = A - storage.Spent
        /\ \A auth \in Signers, to \in Address, n \in Amounts :
              LET r == transfer_from(storage, ledger, auth, sp, o, to, n) IN
              /\ r.err = "ok" =>
                    /\ n <= allowance(storage, ledger, o, sp)
                    /\ allowance(r.st, ledger, o, sp) = allowance(storage, ledger, o, sp) - n
              /\ n > allowance(storage, ledger, o, sp) =>
                    /\ r.err # "ok"
                    /\ Unchanged(r)
                    /\ (/\ sp \in auth
                        /\ has_state(storage)
                        /\ ~is_frozen(storage, o)
                        /\ ~is_frozen(storage, to)
                        /\ ~Expired(storage, ledger, o, sp)) =>
                            r.err = "InsufficientAllowance"

\* C13 witness: user1 approved 2 for user2, transfer_from calls of user2
\* have spent all of it, and a further transfer_from of 1, with user1 still
\* holding tokens and the allowance not expired, fails with
\* InsufficientAllowance.
C13_Witness ==
    /\ storage.Granted = {2}
    /\ storage.Spent = 2
    /\ balance(storage, "user1") > 0
    /\ ~Expired(storage, ledger, "user1", "user2")
    /\ transfer_from(storage, ledger, {"user2"}, "user2", "user1", "user2", 1).err
            = "InsufficientAllowance"

====
